---- MODULE Spec2Model ----
(***************************************************************************)
(* One run of ingest_from_apigw.py: main() acquires an OpenAPI document    *)
(* (local file or API Gateway export), looks the spec up in the hub by     *)
(* name, creates or updates it through three request-body variants, and    *)
(* triggers collection generation.  The hub, the file system and the       *)
(* export subprocess are the environment: every reply they can give is a   *)
(* nondeterministic choice inside the step that waits for it.              *)
(***************************************************************************)
EXTENDS Integers, Sequences, FiniteSets, TLC

VARIABLES
    api_key,    \* os.environ.get("POSTMAN_API_KEY")
    args,       \* argparse namespace: local_spec, region, rest_api_id, stage_name, out
    fs,         \* file system: path -> [exists, data]
    fs0,        \* the file system as it was when the run started
    pc,         \* position of main(): Start, Acquiring, LookingUp, Creating, Updating, Generating, Done, Failed
    spec_yaml,  \* text read in step 1
    spec_id,    \* id chosen in step 2
    tried,      \* number of payload variants already sent by create_spec / update_spec
    last_err,   \* last_err of the negotiation loop
    raised,     \* the exception that left main(), if any
    resp,       \* what the most recent http_json call produced
    log,        \* every external effect of the run, in order
    exit_code,  \* process exit status (-1 while running)
    hub,        \* the specs the hub stores (used when several runs share one hub)
    runs        \* the upsert steps of several runs against that hub: run -> its locals

vars == <<api_key, args, fs, fs0, pc, spec_yaml, spec_id, tried, last_err, raised, resp, log, exit_code,
          hub, runs>>

----------------------------------------------------------------------------
(* Bounds *)
MaxLen == 1      \* longest file content, in characters
MaxSpecs == 2    \* longest list the hub returns

----------------------------------------------------------------------------
(* Values *)
None == "None"                 \* Python None
CR == "CR"
LF == "LF"
Chars == {"x", CR, LF}
SpecName == "Y"                \* args.spec_name
Names == {SpecName, "Z"}
Ids == {"a", "b"}
LocalPath == "spec.yaml"
DefaultOut == "openapi.yaml"
Paths == {LocalPath, DefaultOut}
ArgVals == {None, "", "v"}

RECURSIVE SeqsUpTo(_, _)
SeqsUpTo(S, n) ==
    IF n = 0 THEN {<<>>}
    ELSE LET shorter == SeqsUpTo(S, n - 1)
         IN  shorter \cup {Append(s, c) : s \in {t \in shorter : Len(t) = n - 1}, c \in S}

Contents == SeqsUpTo(Chars, MaxLen)
NoFile == [exists |-> FALSE, data |-> <<>>]
File(d) == [exists |-> TRUE, data |-> d]

\* a test for None only: the empty string would pass
FalsyNoneOnly(v) == v = None

\* `not val`: None and the empty string are falsy
Falsy(v) == v = None \/ v = ""

----------------------------------------------------------------------------
(* Text-mode file access *)

\* open(path, "r", encoding="utf-8").read(): universal newlines, "\r\n" and "\r" become "\n"
RECURSIVE ReadText(_)
ReadText(d) ==
    IF d = <<>> THEN <<>>
    ELSE IF Head(d) = CR
         THEN IF Len(d) >= 2 /\ d[2] = LF
              THEN <<LF>> \o ReadText(SubSeq(d, 3, Len(d)))
              ELSE <<LF>> \o ReadText(Tail(d))
         ELSE <<Head(d)>> \o ReadText(Tail(d))

\* os.linesep of the platform the script runs on (POSIX)
LineSep == <<LF>>

\* open(path, "w", encoding="utf-8").write(text): "\n" becomes os.linesep
RECURSIVE WriteText(_)
WriteText(t) ==
    IF t = <<>> THEN <<>>
    ELSE (IF Head(t) = LF THEN LineSep ELSE <<Head(t)>>) \o WriteText(Tail(t))

----------------------------------------------------------------------------
(* Log entries *)
\*   requests:  "GET /specs", "POST /specs", "PUT /specs/id", "POST /generations"
\*   outcomes:  "ok" / "error", the way the step that issued the request took its reply
\*   others:    "export" (the aws subprocess), "write" (a file written by main), "acquired"
Ev(kind, variant, id, text) == [ev |-> kind, variant |-> variant, id |-> id, text |-> text]
Mark(kind) == Ev(kind, "", "", <<>>)

----------------------------------------------------------------------------
(* HTTP *)
NoResp == [raised |-> "", json |-> "object", spec |-> "absent", spec_id |-> "absent", id |-> "absent", specs |-> <<>>]

\* what the server (or the network) does with one request
Ref(id, name) == [id |-> id, name |-> name]
Refs == {Ref(id, n) : id \in Ids \cup {""}, n \in Names}
\* a 2xx body, as the fields the script looks at
\*   json:    "object" when the body is a JSON object (or empty, read as {}), "array" otherwise
\*   spec:    "absent" | "notdict" | "dict"
\*   spec_id: the "id" entry of the spec object ("absent" when it has none)
\*   id:      the top-level "id": "absent" | "nonstr" | a string
Body(spec, sid, id, specs) ==
    [raised |-> "", json |-> "object", spec |-> spec, spec_id |-> sid, id |-> id, specs |-> specs]
CreateBodies ==
    {Body("dict", sid, id, <<>>) : sid \in Ids \cup {"absent"}, id \in Ids \cup {"absent", "nonstr"}}
    \cup {Body(s, "absent", id, <<>>) : s \in {"absent", "notdict"}, id \in Ids \cup {"absent", "nonstr"}}
EmptyBody == Body("absent", "absent", "absent", <<>>)
ArrayBody == [EmptyBody EXCEPT !.json = "array"]
ListBodies == {Body("absent", "absent", "absent", l) : l \in SeqsUpTo(Refs, MaxSpecs)}

\* http_json: an HTTPError is re-raised as RuntimeError; a timeout (URLError /
\* TimeoutError) is not caught and leaves http_json as it is
Wire == {"2xx", "HTTPError", "timeout"}
HttpJson(wire, body) ==
    IF wire = "HTTPError" THEN [NoResp EXCEPT !.raised = "RuntimeError:HTTP"]
    ELSE IF wire = "timeout" THEN [NoResp EXCEPT !.raised = "URLError:timeout"]
    ELSE body

\* exceptions: the one held by last_err, and the one that leaves main()
NoErr == [attempt |-> 0, exc |-> ""]
NoRaise == [exc |-> "", cause |-> NoErr]

----------------------------------------------------------------------------
Init ==
    /\ api_key \in {None, "", "PMAK"}
    /\ args \in [local_spec : {None, "", LocalPath}, region : ArgVals, rest_api_id : ArgVals,
                 stage_name : ArgVals, out : Paths]
    /\ fs \in [Paths -> {NoFile} \cup {File(d) : d \in Contents}]
    /\ fs[DefaultOut] \in {NoFile, File(<<"x">>)}
    /\ Falsy(args.local_spec) => fs[LocalPath] = NoFile
    /\ fs0 = fs
    /\ pc = "Start"
    /\ spec_yaml = <<>>
    /\ spec_id = None
    /\ tried = 0
    /\ last_err = NoErr
    /\ raised = NoRaise
    /\ resp = NoResp
    /\ log = <<>>
    /\ exit_code = -1
    /\ hub = <<>>
    /\ runs = <<>>

\* every failure reported with the status of a configuration error
CrashExitTwo(exc) ==
    /\ pc' = "Failed"
    /\ raised' = [exc |-> exc, cause |-> NoErr]
    /\ exit_code' = 2

\* the exception caught and the failed step run again
CrashRetry(exc) ==
    /\ pc' = pc
    /\ raised' = [exc |-> exc, cause |-> NoErr]
    /\ exit_code' = exit_code

\* an exception leaves main(): traceback, exit status 1 (lines 229-230)
Crash(exc) ==
    /\ pc' = "Failed"
    /\ raised' = [exc |-> exc, cause |-> NoErr]
    /\ exit_code' = 1

\* lines 160-163
CheckApiKey ==
    /\ pc = "Start"
    /\ IF Falsy(api_key)
       THEN /\ pc' = "Failed"
            /\ exit_code' = 2
       ELSE /\ pc' = "Acquiring"
            /\ exit_code' = exit_code
    /\ UNCHANGED <<hub, runs, api_key, args, fs, fs0, spec_yaml, spec_id, tried, last_err, raised, resp, log>>

\* export mode preferred whenever a region is given
UsesLocalUnlessRegion(a) == ~Falsy(a.local_spec) /\ Falsy(a.region)

\* line 167: `if args.local_spec:`
UsesLocal(a) == ~Falsy(a.local_spec)

\* lines 167-177: local mode
AcquireLocal ==
    /\ pc = "Acquiring"
    /\ UsesLocal(args)
    /\ IF ~fs[args.local_spec].exists
       THEN /\ Crash("FileNotFoundError")
            /\ UNCHANGED <<fs, spec_yaml, log>>
       ELSE LET text == ReadText(fs[args.local_spec].data)
            IN  /\ spec_yaml' = text
                /\ IF args.local_spec # args.out
                   THEN /\ fs' = [fs EXCEPT ![args.out] = File(WriteText(text))]
                        /\ log' = log \o <<Ev("write", "", args.out, text), Mark("acquired")>>
                   ELSE /\ fs' = fs
                        /\ log' = Append(log, Mark("acquired"))
                /\ pc' = "LookingUp"
                /\ UNCHANGED <<raised, exit_code>>
    /\ UNCHANGED <<hub, runs, api_key, args, fs0, spec_id, tried, last_err, resp>>

\* the check without its last entry
MissingArgsNoStage(a) ==
    {n \in {"--region", "--rest-api-id"} :
        \/ n = "--region" /\ Falsy(a.region)
        \/ n = "--rest-api-id" /\ Falsy(a.rest_api_id)}

\* lines 181-189
MissingArgs(a) ==
    {n \in {"--region", "--rest-api-id", "--stage-name"} :
        \/ n = "--region" /\ Falsy(a.region)
        \/ n = "--rest-api-id" /\ Falsy(a.rest_api_id)
        \/ n = "--stage-name" /\ Falsy(a.stage_name)}

\* lines 178-200: export mode.  parser.error() exits with status 2; the aws
\* subprocess either fails (check=True raises) or writes the export to out_path
AcquireExport ==
    /\ pc = "Acquiring"
    /\ ~UsesLocal(args)
    /\ IF MissingArgs(args) # {}
       THEN /\ pc' = "Failed"
            /\ exit_code' = 2
            /\ UNCHANGED <<fs, spec_yaml, log, raised>>
       ELSE \/ /\ Crash("CalledProcessError")
               /\ log' = Append(log, Ev("export", "", args.out, <<>>))
               /\ UNCHANGED <<fs, spec_yaml>>
            \/ \E d \in Contents :
                 /\ fs' = [fs EXCEPT ![args.out] = File(d)]
                 /\ spec_yaml' = ReadText(d)
                 /\ log' = log \o <<Ev("export", "", args.out, <<>>), Mark("acquired")>>
                 /\ pc' = "LookingUp"
                 /\ UNCHANGED <<raised, exit_code>>
    /\ UNCHANGED <<hub, runs, api_key, args, fs0, spec_id, tried, last_err, resp>>

RECURSIVE Reverse(_)
Reverse(q) == IF q = <<>> THEN <<>> ELSE Append(Reverse(Tail(q)), Head(q))

\* the matches with the most recent one first
ExistingLastFirst(specs, name) == Reverse(SelectSeq(specs, LAMBDA s : s.name = name))

\* the spec name compared with the wrong key of the entries
ExistingById(specs, name) == SelectSeq(specs, LAMBDA s : s.id = name)

\* line 206: the entries of the list whose name is the spec name, in list order
Existing(specs, name) == SelectSeq(specs, LAMBDA s : s.name = name)

\* line 207
TakesUpdate(existing) == existing # <<>> /\ ~Falsy(existing[1].id)

\* lines 76-80, 206-208: list_specs and the create-or-update decision.
\* resp.get("specs", []) raises AttributeError when the body is no JSON object
LookUp ==
    /\ pc = "LookingUp"
    /\ \E wire \in Wire, body \in ListBodies \cup {ArrayBody} :
         LET r == HttpJson(wire, body)
             existing == Existing(r.specs, SpecName)
             get == Ev("GET /specs", "", "", <<>>)
         IN  /\ wire # "2xx" => body = EmptyBody
             /\ resp' = r
             /\ IF r.raised # "" \/ r.json # "object"
                THEN /\ Crash(IF r.raised # "" THEN r.raised ELSE "AttributeError")
                     /\ log' = log \o <<get, Mark("error")>>
                     /\ UNCHANGED spec_id
                ELSE /\ log' = log \o <<get, Mark("ok")>>
                     /\ IF TakesUpdate(existing)
                        THEN /\ spec_id' = existing[1].id
                             /\ pc' = "Updating"
                        ELSE /\ spec_id' = spec_id
                             /\ pc' = "Creating"
                     /\ UNCHANGED <<raised, exit_code>>
    /\ UNCHANGED <<hub, runs, api_key, args, fs, fs0, spec_yaml, tried, last_err>>

\* a fourth shape appended to the list
PayloadVariantsFour == <<"A", "B", "C", "D">>

\* lines 95-102, 118-122: the body shapes, in the order they are tried
PayloadVariants == <<"A", "B", "C">>

\* the two envelopes tested in the other order
ExtractSpecIdTopFirst(r) ==
    IF r.id \notin {"absent", "nonstr"} THEN [raised |-> "", id |-> r.id]
    ELSE IF r.spec = "dict" /\ r.spec_id # "absent" THEN [raised |-> "", id |-> r.spec_id]
    ELSE [raised |-> "RuntimeError:Unexpected", id |-> None]

\* lines 83-89
ExtractSpecId(r) ==
    IF r.spec = "dict" /\ r.spec_id # "absent" THEN [raised |-> "", id |-> r.spec_id]
    ELSE IF r.id \notin {"absent", "nonstr"} THEN [raised |-> "", id |-> r.id]
    ELSE [raised |-> "RuntimeError:Unexpected", id |-> None]

\* last_err assigned only while it is still unset
KeepFirstError(prev, e) == IF prev.attempt = 0 THEN e ELSE prev

\* lines 109-110, 128-129: except Exception as e: last_err = e
OnVariantError(prev, e) == e

\* the loop without its early return: a success is only noticed after the last variant
AfterVariantNoReturn(ok, n, here) ==
    IF n = Len(PayloadVariants) THEN (IF ok THEN "Generating" ELSE "Failed")
    ELSE here

\* the loop without its final raise: exhaustion falls through to the next step
AfterVariantSwallow(ok, n, here) ==
    IF ok \/ n = Len(PayloadVariants) THEN "Generating"
    ELSE here

\* exhaustion answered by starting the upsert over
AfterVariantRelist(ok, n, here) ==
    IF ok THEN "Generating"
    ELSE IF n = Len(PayloadVariants) THEN "LookingUp"
    ELSE here

\* lines 105-112, 124-131: where the loop goes after variant n of the call at `here`
AfterVariant(ok, n, here) ==
    IF ok THEN "Generating"
    ELSE IF n = Len(PayloadVariants) THEN "Failed"
    ELSE here

\* the pass with create_spec's return value dropped: spec_id keeps what it held
NegotiateKeepId(req, result, aggregate) ==
    LET n == tried + 1
        ok == result.raised = ""
        to == AfterVariant(ok, n, pc)
        err == OnVariantError(last_err, [attempt |-> n, exc |-> result.raised])
    IN  /\ tried' = n
        /\ pc' = to
        /\ last_err' = IF ok THEN last_err ELSE err
        /\ log' = log \o <<req, IF ok THEN Ev("ok", req.variant, result.id, <<>>)
                                      ELSE Ev("error", req.variant, "", <<>>)>>
        /\ spec_id' = spec_id
        /\ IF to = "Failed"
           THEN /\ raised' = [exc |-> aggregate, cause |-> err]
                /\ exit_code' = 1
           ELSE UNCHANGED <<raised, exit_code>>

\* one pass of the for loop of create_spec / update_spec, with the raise that
\* follows the last pass
Negotiate(req, result, aggregate) ==
    LET n == tried + 1
        ok == result.raised = ""
        to == AfterVariant(ok, n, pc)
        err == OnVariantError(last_err, [attempt |-> n, exc |-> result.raised])
    IN  /\ tried' = n
        /\ pc' = to
        /\ last_err' = IF ok THEN last_err ELSE err
        /\ log' = log \o <<req, IF ok THEN Ev("ok", req.variant, result.id, <<>>)
                                      ELSE Ev("error", req.variant, "", <<>>)>>
        /\ spec_id' = IF ok /\ req.ev = "POST /specs" THEN result.id ELSE spec_id
        /\ IF to = "Failed"
           THEN /\ raised' = [exc |-> aggregate, cause |-> err]
                /\ exit_code' = 1
           ELSE UNCHANGED <<raised, exit_code>>

\* lines 92-112
CreateAttempt ==
    /\ pc = "Creating"
    /\ tried < Len(PayloadVariants)
    /\ \E wire \in Wire, body \in CreateBodies \cup {ArrayBody} :
         LET r == HttpJson(wire, body)
             result == IF r.raised # "" THEN [raised |-> r.raised, id |-> None] ELSE ExtractSpecId(r)
         IN  /\ wire # "2xx" => body = EmptyBody
             /\ resp' = r
             /\ Negotiate(Ev("POST /specs", PayloadVariants[tried + 1], "", spec_yaml), result,
                          "RuntimeError:Failed to create spec")
    /\ UNCHANGED <<hub, runs, api_key, args, fs, fs0, spec_yaml>>

\* lines 115-131: any reply that http_json returns counts, whatever its body
UpdateAttempt ==
    /\ pc = "Updating"
    /\ tried < Len(PayloadVariants)
    /\ \E wire \in Wire, body \in {EmptyBody, ArrayBody} :
         LET r == HttpJson(wire, body)
         IN  /\ wire # "2xx" => body = EmptyBody
             /\ resp' = r
             /\ Negotiate(Ev("PUT /specs/id", PayloadVariants[tried + 1], spec_id, spec_yaml),
                          [raised |-> r.raised, id |-> spec_id],
                          "RuntimeError:Failed to update spec")
    /\ UNCHANGED <<hub, runs, api_key, args, fs, fs0, spec_yaml>>

\* lines 134-137, 219-226: gen.keys() raises AttributeError when the body is no JSON object
Generate ==
    /\ pc = "Generating"
    /\ \E wire \in Wire, body \in {EmptyBody, ArrayBody} :
         LET r == HttpJson(wire, body)
             post == Ev("POST /generations", "", spec_id, <<>>)
         IN  /\ wire # "2xx" => body = EmptyBody
             /\ resp' = r
             /\ IF r.raised # "" \/ r.json # "object"
                THEN /\ Crash(IF r.raised # "" THEN r.raised ELSE "AttributeError")
                     /\ log' = log \o <<post, Mark("error")>>
                ELSE /\ pc' = "Done"
                     /\ exit_code' = 0
                     /\ log' = log \o <<post, Mark("ok")>>
                     /\ UNCHANGED raised
    /\ UNCHANGED <<hub, runs, api_key, args, fs, fs0, spec_yaml, spec_id, tried, last_err>>

Next ==
    \/ CheckApiKey
    \/ AcquireLocal
    \/ AcquireExport
    \/ LookUp
    \/ CreateAttempt
    \/ UpdateAttempt
    \/ Generate

Spec == Init /\ [][Next]_vars

\* every external call returns or fails: a step that can be taken is taken (WF)
\* the runs in which the three export options are given alike
InitLive ==
    /\ Init
    /\ args.region = args.rest_api_id
    /\ args.rest_api_id = args.stage_name
SpecLive == InitLive /\ [][Next]_vars /\ WF_vars(Next)

----------------------------------------------------------------------------
(* Several runs against one hub.  Each run is step 2 and step 3 of main()     *)
(* with its own spec text; the hub answers every request from what it        *)
(* stores, as its interface describes: GET lists the stored specs, POST      *)
(* stores a new one under a fresh id, PUT replaces the content of one.       *)

\* the text a run holds after step 1
Texts == {ReadText(d) : d \in Contents}

\* a stored spec: `origin` is the run whose POST created it (0: there before
\* the runs), `by` the run whose request wrote its content last
Stored(id, name, text, origin) == [id |-> id, name |-> name, text |-> text, origin |-> origin, by |-> origin]

\* GET /specs?workspaceId=
HubList(h) == Body("absent", "absent", "absent", [k \in 1..Len(h) |-> Ref(h[k].id, h[k].name)])

\* POST /specs?workspaceId=: the hub stores the spec under an id of its own
HubNewId(h) == ToString(Len(h) + 1)
HubPost(h, name, text, r) == Append(h, Stored(HubNewId(h), name, text, r))
HubPostReplies(h) ==
    {Body("absent", "absent", HubNewId(h), <<>>), Body("dict", HubNewId(h), "absent", <<>>)}

\* PUT /specs/<id>
HubPut(h, id, text, r) ==
    [k \in 1..Len(h) |-> IF h[k].id = id THEN [h[k] EXCEPT !.text = text, !.by = r] ELSE h[k]]

\* the locals of a run that has its text and is about to list
\*   matches: how many entries of the list it got carried the spec name
NewRun(text) == [pc |-> "LookingUp", text |-> text, spec_id |-> None, tried |-> 0, matches |-> 0]

InitialHubs(names) ==
    {h \in SeqsUpTo({Stored(id, n, <<>>, 0) : id \in Ids, n \in names}, MaxSpecs) :
        \A j, k \in 1..Len(h) : h[j].id = h[k].id => j = k}

\* the variables of the single run, unused here
Idle ==
    /\ api_key = "PMAK"
    /\ args = [local_spec |-> LocalPath, region |-> None, rest_api_id |-> None, stage_name |-> None,
               out |-> DefaultOut]
    /\ fs = [p \in Paths |-> NoFile]
    /\ fs0 = fs
    /\ pc = "Start"
    /\ spec_yaml = <<>>
    /\ spec_id = None
    /\ tried = 0
    /\ last_err = NoErr
    /\ raised = NoRaise
    /\ resp = NoResp
    /\ log = <<>>
    /\ exit_code = -1
solo == <<api_key, args, fs, fs0, pc, spec_yaml, spec_id, tried, last_err, raised, resp, log, exit_code>>

\* lines 206-208 of run r
RunLookUp(r) ==
    /\ runs[r].pc = "LookingUp"
    /\ LET reply == HttpJson("2xx", HubList(hub))
           existing == Existing(reply.specs, SpecName)
       IN  runs' = [runs EXCEPT ![r].matches = Len(existing),
                                ![r].spec_id = IF TakesUpdate(existing) THEN existing[1].id ELSE @,
                                ![r].pc = IF TakesUpdate(existing) THEN "Updating" ELSE "Creating"]
    /\ UNCHANGED <<hub, solo>>

\* lines 212, 92-112 of run r
RunCreate(r) ==
    /\ runs[r].pc = "Creating"
    /\ runs[r].tried < Len(PayloadVariants)
    /\ \E body \in HubPostReplies(hub) :
         LET result == ExtractSpecId(HttpJson("2xx", body))
             ok == result.raised = ""
             n == runs[r].tried + 1
         IN  runs' = [runs EXCEPT ![r].tried = n,
                                  ![r].spec_id = IF ok THEN result.id ELSE @,
                                  ![r].pc = AfterVariant(ok, n, "Creating")]
    /\ hub' = HubPost(hub, SpecName, runs[r].text, r)
    /\ UNCHANGED solo

\* lines 209, 115-131 of run r
RunUpdate(r) ==
    /\ runs[r].pc = "Updating"
    /\ runs[r].tried < Len(PayloadVariants)
    /\ LET reply == HttpJson("2xx", EmptyBody)
           n == runs[r].tried + 1
       IN  runs' = [runs EXCEPT ![r].tried = n,
                                ![r].pc = AfterVariant(reply.raised = "", n, "Updating")]
    /\ hub' = HubPut(hub, runs[r].spec_id, runs[r].text, r)
    /\ UNCHANGED solo

\* lines 219-226 of run r
RunGenerate(r) ==
    /\ runs[r].pc = "Generating"
    /\ runs' = [runs EXCEPT ![r].pc = "Done"]
    /\ UNCHANGED <<hub, solo>>

\* two processes started side by side on the same workspace and spec name
Racers == {1, 2}
InitRace ==
    /\ Idle
    /\ hub \in InitialHubs(Names)
    /\ runs \in [Racers -> {NewRun(t) : t \in Texts}]
NextRace ==
    \/ \E r \in Racers : RunLookUp(r)
    \/ \E r \in Racers : RunCreate(r)
    \/ \E r \in Racers : RunUpdate(r)
    \/ \E r \in Racers : RunGenerate(r)
SpecRace == InitRace /\ [][NextRace]_vars

\* the script invoked again and again, each run after the one before has
\* ended, on a hub that holds no spec of that name at first
MaxRuns == 3
InitSeq ==
    /\ Idle
    /\ hub \in InitialHubs(Names \ {SpecName})
    /\ runs \in [1..MaxRuns -> {NewRun(t) : t \in Texts}]
Turn(r) == \A q \in 1..(r - 1) : runs[q].pc = "Done"
NextSeq ==
    \/ \E r \in 1..MaxRuns : Turn(r) /\ RunLookUp(r)
    \/ \E r \in 1..MaxRuns : Turn(r) /\ RunCreate(r)
    \/ \E r \in 1..MaxRuns : Turn(r) /\ RunUpdate(r)
    \/ \E r \in 1..MaxRuns : Turn(r) /\ RunGenerate(r)
SpecSeq == InitSeq /\ [][NextSeq]_vars

----------------------------------------------------------------------------
(* Properties *)

Idx(kinds) == {k \in 1..Len(log) : log[k].ev \in kinds}
VariantKinds == {"POST /specs", "PUT /specs/id"}
Shapes == <<"A", "B", "C">>
LocalMode == args.local_spec \notin {None, ""}

\* C1: first success wins.  The variant requests of a call go out in the order
\* A, B, C; variant i+1 is sent only after variant i failed; once variant k is
\* taken as a success no further variant is sent, exactly k requests have been
\* issued, and for create the spec id is the one extracted from that reply.
FirstSuccessWins ==
    \A kind \in VariantKinds :
        LET sent == Idx({kind})
        IN  \A k \in sent :
                LET n == Cardinality({j \in sent : j <= k})
                IN  /\ n <= Len(Shapes) => log[k].variant = Shapes[n]
                    /\ \A j \in sent : j < k => log[j + 1].ev = "error"
                    /\ log[k + 1].ev = "ok" =>
                          /\ Cardinality(sent) = n
                          /\ tried = n
                          /\ kind = "POST /specs" =>
                                /\ spec_id = log[k + 1].id
                                /\ pc = "Generating" => spec_id = ExtractSpecId(resp).id

\* C1 witness: variant B of a create succeeded after variant A failed
SecondVariantWon ==
    /\ pc = "Generating"
    /\ \E k \in Idx({"POST /specs"}) : log[k].variant = "B" /\ log[k + 1].ev = "ok"
    /\ Cardinality(Idx({"POST /specs"})) = 2
    /\ spec_id \in Ids

Aggregate(kind) ==
    IF kind = "POST /specs" THEN "RuntimeError:Failed to create spec"
    ELSE "RuntimeError:Failed to update spec"

\* C2: variant exhaustion.  All three variants of a call failed exactly when the
\* aggregate error of that call is raised; then exactly three requests were
\* issued, in the order A, B, C, and the error refers to the third attempt's error.
VariantExhaustion ==
    \A kind \in VariantKinds :
        LET sent == Idx({kind})
            failed == {k \in sent : log[k + 1].ev = "error"}
        IN  /\ Cardinality(failed) >= 3 <=> raised.exc = Aggregate(kind)
            /\ raised.exc = Aggregate(kind) =>
                  /\ pc = "Failed"
                  /\ Cardinality(sent) = 3
                  /\ \A k \in sent : log[k].variant = Shapes[Cardinality({j \in sent : j <= k})]
                  /\ raised.cause.attempt = 3
                  /\ raised.cause.exc = (IF resp.raised # "" THEN resp.raised
                                         ELSE "RuntimeError:Unexpected")

\* C2 witness: an update ran out of variants, the last of them on an HTTP error
UpdateExhausted ==
    /\ raised.exc = "RuntimeError:Failed to update spec"
    /\ raised.cause.exc = "RuntimeError:HTTP"
    /\ Cardinality(Idx({"PUT /specs/id"})) = 3

Matches(specs) == {k \in 1..Len(specs) : specs[k].name = SpecName}
FirstMatch(specs) == CHOOSE k \in Matches(specs) : \A j \in Matches(specs) : k <= j
Decided == pc \in {"Creating", "Updating"} /\ tried = 0

\* C3 as stated: zero entries named like the spec -> create; one or more ->
\* update of the first such entry's id.
UpdateWheneverNameMatches ==
    Decided =>
        IF Matches(resp.specs) = {} THEN pc = "Creating"
        ELSE pc = "Updating" /\ spec_id = resp.specs[FirstMatch(resp.specs)].id

\* C3 amended: the update path is taken exactly when the first entry named like
\* the spec carries a non-empty id, and it targets that id; with no such entry,
\* or a first one without id, the create path is taken.  Every PUT of the run
\* goes to that id and no POST /specs is issued on the update path.
CreateOrUpdateDecision ==
    /\ Decided =>
          IF Matches(resp.specs) # {} /\ resp.specs[FirstMatch(resp.specs)].id \notin {None, ""}
          THEN pc = "Updating" /\ spec_id = resp.specs[FirstMatch(resp.specs)].id
          ELSE pc = "Creating"
    /\ \A k \in Idx({"PUT /specs/id"}) : log[k].id = spec_id /\ Idx({"POST /specs"}) = {}

\* C3 witness: two entries named like the spec, ids "a" then "b"; update chosen
TwoMatchesUpdate ==
    /\ Decided
    /\ Len(resp.specs) = 2
    /\ \A k \in 1..2 : resp.specs[k].name = SpecName
    /\ resp.specs[1].id = "a" /\ resp.specs[2].id = "b"
    /\ pc = "Updating"

\* C4 as stated: a failed generation request after a successful create or
\* update still lets the run reach Done with exit code 0.
GenerationFailureNotGating ==
    (\E k \in Idx({"POST /generations"}) : log[k + 1].ev = "error") =>
        pc = "Done" /\ exit_code = 0

\* C5: with POSTMAN_API_KEY unset or empty the run ends with exit code 2 and has
\* no effect at all: no request, no export subprocess, no file written.
MissingCredential ==
    api_key \in {None, ""} =>
        /\ pc \in {"Start", "Failed"}
        /\ pc = "Failed" => exit_code = 2
        /\ log = <<>>
        /\ fs = fs0

\* C5 witness: the run with an empty key has ended
EmptyKeyRejected == api_key = "" /\ pc = "Failed" /\ exit_code = 2

ExportArgMissing ==
    \/ args.region \in {None, ""}
    \/ args.rest_api_id \in {None, ""}
    \/ args.stage_name \in {None, ""}

\* C6: in export mode with region, rest-api-id or stage-name missing or empty,
\* the run ends with exit code 2 before the export subprocess and before any request.
ExportConfigCheck ==
    (~LocalMode /\ ExportArgMissing) =>
        /\ pc \in {"Start", "Acquiring", "Failed"}
        /\ pc = "Failed" => exit_code = 2
        /\ log = <<>>
        /\ fs = fs0

\* C6 witness: the key is there, only the stage name is missing, the run has ended
StageNameMissing ==
    /\ api_key = "PMAK" /\ args.local_spec = None
    /\ args.region = "v" /\ args.rest_api_id = "v" /\ args.stage_name = None
    /\ pc = "Failed" /\ exit_code = 2

\* C7: step ordering.  The list request follows a completed acquisition; every
\* create or update request follows a list request that returned; the generation
\* request follows a create or update that succeeded; a failed list request is
\* the last thing the run does.
StepOrdering ==
    \A k \in 1..Len(log) :
        /\ log[k].ev = "GET /specs" => \E j \in 1..(k - 1) : log[j].ev = "acquired"
        /\ log[k].ev \in VariantKinds =>
              \E j \in 1..(k - 1) : log[j].ev = "GET /specs" /\ log[j + 1].ev = "ok"
        /\ log[k].ev = "POST /generations" =>
              \E j \in 1..(k - 1) : log[j].ev \in VariantKinds /\ log[j + 1].ev = "ok"
        /\ (log[k].ev = "GET /specs" /\ log[k + 1].ev = "error") => Len(log) = k + 1

\* C7 witness: a complete run, export, list, third create variant, generation
FullRun ==
    /\ pc = "Done"
    /\ Idx({"export"}) # {}
    /\ Cardinality(Idx({"POST /specs"})) = 3

\* C8: per-run bounds.  At most one acquisition, one list request, variant
\* requests of one kind only and at most three of them, one generation request.
RequestBounds ==
    /\ Cardinality(Idx({"acquired"})) <= 1
    /\ Cardinality(Idx({"export"})) <= 1
    /\ Cardinality(Idx({"write"})) <= 1
    /\ Cardinality(Idx({"GET /specs"})) <= 1
    /\ Idx({"POST /specs"}) = {} \/ Idx({"PUT /specs/id"}) = {}
    /\ Cardinality(Idx(VariantKinds)) <= 3
    /\ Cardinality(Idx({"POST /generations"})) <= 1

\* C8 witness: a run that used all it may: three update variants, then generation
AllRequestsUsed ==
    /\ Cardinality(Idx({"PUT /specs/id"})) = 3
    /\ Cardinality(Idx({"POST /generations"})) = 1
    /\ Cardinality(Idx({"GET /specs"})) = 1

\* C9 as stated: a variant attempt that timed out is not handled as an ordinary
\* variant failure: no further variant request follows it.
TimeoutEndsNegotiation ==
    [][(pc \in {"Creating", "Updating"} /\ last_err.exc = "URLError:timeout")
          => Idx(VariantKinds)' = Idx(VariantKinds)]_vars

\* C10 as stated: in local mode, once the spec is acquired, the output file holds
\* the input file's content and the text sent to the hub is that content; with
\* coinciding paths nothing is written.
LocalRoundTrip ==
    (LocalMode /\ Idx({"acquired"}) # {}) =>
        LET input == fs0[args.local_spec].data
        IN  /\ fs[args.out].exists /\ fs[args.out].data = input
            /\ spec_yaml = input
            /\ \A k \in Idx(VariantKinds) : log[k].text = input
            /\ args.local_spec = args.out => fs = fs0 /\ Idx({"write"}) = {}

\* C11: mode exclusivity.  With a local spec path given the run is in local
\* mode whatever region, rest-api-id and stage-name hold: the export subprocess
\* is never invoked and exit status 2 can only come from a missing API key.
LocalModeTakesPrecedence ==
    args.local_spec \notin {None, ""} =>
        /\ Idx({"export"}) = {}
        /\ exit_code = 2 => api_key \in {None, ""}
        /\ (pc \notin {"Start", "Acquiring"} /\ api_key \notin {None, ""} /\ fs0[args.local_spec].exists)
              => Idx({"acquired"}) # {}

\* C11 witness: a local run got past acquisition with none of the export fields given
LocalWithoutExportFields ==
    /\ args.local_spec = LocalPath
    /\ args.region = None /\ args.rest_api_id = None /\ args.stage_name = None
    /\ pc = "LookingUp"

\* C12: fatal failures.  A failed list request or the exhaustion of all create
\* or update variants ends the run in Failed with exit status 1, the failed
\* step is the last thing the run does, and exit status 2 is produced only for
\* a missing credential or an export-mode configuration error.
FatalFailures ==
    /\ (\/ \E k \in Idx({"GET /specs"}) : log[k + 1].ev = "error"
        \/ \E kind \in VariantKinds : Cardinality({k \in Idx({kind}) : log[k + 1].ev = "error"}) >= 3)
          => /\ pc = "Failed"
             /\ exit_code = 1
             /\ log[Len(log)].ev = "error"
             /\ Cardinality(Idx({"GET /specs"})) = 1
             /\ Cardinality(Idx(VariantKinds)) \in {0, 3}
    /\ exit_code = 2 => /\ api_key \in {None, ""} \/ (~LocalMode /\ ExportArgMissing)
                        /\ log = <<>>
    /\ pc = "Done" => \A k \in 1..Len(log) : log[k].ev = "error" => k + 1 \in Idx({"POST /specs", "PUT /specs/id"})

\* C12 witness: the list request failed and the run has ended
ListFailed ==
    /\ pc = "Failed"
    /\ Len(log) >= 2 /\ log[Len(log) - 1].ev = "GET /specs" /\ log[Len(log)].ev = "error"
    /\ exit_code = 1

\* C14: no rollback.  A generation request that fails after a successful create
\* or update is the last request of the run: the run ends there and sends the
\* hub nothing more, so what the create or update wrote stays as it is.
NoRollbackAfterGeneration ==
    \A k \in Idx({"POST /generations"}) :
        log[k + 1].ev = "error" =>
            /\ Len(log) = k + 1
            /\ pc = "Failed"
            /\ \E j \in Idx(VariantKinds) : j < k /\ log[j + 1].ev = "ok"

\* C14 witness: the generation request failed after a successful update
GenerationFailedAfterUpdate ==
    /\ Idx({"PUT /specs/id"}) # {}
    /\ \E k \in Idx({"POST /generations"}) : log[k + 1].ev = "error"

\* C15 as stated: a POST /specs that the hub answered 2xx is not followed by
\* another POST /specs of the same create_spec call.
AcceptedPostIsLast ==
    [][(pc = "Creating" /\ tried >= 1 /\ resp.raised = "")
          => Idx({"POST /specs"})' = Idx({"POST /specs"})]_vars

AfterCreate == Len(log) >= 2 /\ log[Len(log) - 1].ev = "POST /specs"

\* C16: identifier extraction.  From a 2xx reply to POST /specs the id under the
\* spec object is taken when there is one, else the top-level id when it is a
\* string; a reply with neither is a variant failure inside the loop: the next
\* variant is tried, or after the last one the aggregate error is raised.
IdExtraction ==
    (AfterCreate /\ resp.raised = "") =>
        LET out == log[Len(log)]
            taken(id) == out.ev = "ok" /\ out.id = id /\ spec_id = id /\ pc = "Generating"
        IN  IF resp.spec = "dict" /\ resp.spec_id \in Ids THEN taken(resp.spec_id)
            ELSE IF resp.id \in Ids THEN taken(resp.id)
            ELSE /\ out.ev = "error"
                 /\ last_err = [attempt |-> tried, exc |-> "RuntimeError:Unexpected"]
                 /\ IF tried < 3
                    THEN pc = "Creating" /\ raised = NoRaise /\ exit_code = -1
                    ELSE /\ pc = "Failed"
                         /\ raised = [exc |-> "RuntimeError:Failed to create spec", cause |-> last_err]

\* C16 witness: a reply with both envelopes, different ids; the nested one was taken
NestedIdTaken ==
    /\ AfterCreate
    /\ resp.spec = "dict" /\ resp.spec_id = "a" /\ resp.id = "b"
    /\ spec_id = "a"

\* C19: the generation request names the spec just written: the id of the
\* successful PUT on the update path, the id create_spec returned on the create path.
GenerationTargetsWrittenSpec ==
    \A k \in Idx({"POST /generations"}) :
        /\ k >= 3
        /\ log[k - 2].ev \in VariantKinds
        /\ log[k - 1].ev = "ok"
        /\ log[k].id = log[k - 1].id
        /\ log[k - 2].ev = "PUT /specs/id" => log[k].id = log[k - 2].id

\* C19 witness: generation requested for the id a create returned
GeneratedForCreated ==
    /\ pc = "Done"
    /\ \E k \in Idx({"POST /generations"}) : log[k - 2].ev = "POST /specs" /\ log[k].id = "b"

RequestKinds == {"GET /specs", "POST /specs", "PUT /specs/id", "POST /generations"}
Terminal == {"Done", "Failed"}
Edges ==
    {<<"Start", "Acquiring">>, <<"Acquiring", "LookingUp">>, <<"LookingUp", "Creating">>,
     <<"LookingUp", "Updating">>, <<"Creating", "Generating">>, <<"Updating", "Generating">>,
     <<"Generating", "Done">>}
CanFail ==
    /\ pc \in {"LookingUp", "Generating"} => ENABLED (Next /\ pc' = "Failed")
    /\ pc \in {"Creating", "Updating"} =>
          ENABLED (Next /\ (pc' = "Failed" \/ (pc' = pc /\ last_err' # last_err)))

\* C17: forward progress and termination.  The run only moves along
\* Acquiring -> LookingUp -> {Creating | Updating} -> Generating -> Done or to
\* Failed, never out of Done or Failed and never back; a failing reply is
\* possible at every request; the run issues at most 1 + 3 + 1 requests; and
\* when every call returns, the run reaches Done or Failed.
ForwardProgress ==
    /\ [][pc' # pc => (pc \notin Terminal /\ (pc' = "Failed" \/ <<pc, pc'>> \in Edges))]_vars
    /\ [](Cardinality(Idx(RequestKinds)) <= 5)
    /\ []CanFail
    /\ <>(pc \in Terminal)

\* C17 witness: a run that ended in Done after five requests
LongestRunDone == pc = "Done" /\ Cardinality(Idx(RequestKinds)) = 5

Named == {k \in 1..Len(hub) : hub[k].name = SpecName}
Settled(r) == runs[r].pc \in {"Generating", "Done"}

\* C13: two concurrent runs.  When both runs got a list without the spec name
\* (both lists answered before either create was applied) both create, and the
\* hub ends up with two specs of that name, one per run.  When both runs found
\* the name in their list, both PUT to the same id, and the hub keeps only the
\* content of the run whose PUT came last.
RaceOutcome ==
    (\A r \in Racers : Settled(r)) =>
        /\ (\A r \in Racers : runs[r].matches = 0) =>
              /\ Cardinality(Named) = 2
              /\ \A r \in Racers : \E k \in Named :
                    hub[k].origin = r /\ hub[k].text = runs[r].text /\ hub[k].id = runs[r].spec_id
        /\ (\A r \in Racers : runs[r].matches > 0) =>
              /\ runs[1].spec_id = runs[2].spec_id
              /\ \A k \in Named : hub[k].origin = 0
              /\ \E k \in Named :
                    /\ hub[k].id = runs[1].spec_id
                    /\ hub[k].by \in Racers
                    /\ hub[k].text = runs[hub[k].by].text
                    /\ \A j \in 1..Len(hub) : hub[j].by # 0 => j = k

\* C13 witness: a hub that was empty holds two specs of the name, one from each run
DuplicateSpecs ==
    /\ \A r \in Racers : runs[r].pc = "Done"
    /\ Len(hub) = 2
    /\ \A k \in 1..2 : hub[k].name = SpecName /\ hub[k].origin \in Racers
    /\ hub[1].origin # hub[2].origin

\* C18: sequential upsert.  On a hub that held no spec of the name and answers
\* every call, whenever all runs started so far are complete the hub holds
\* exactly one spec of the name: the first run created it, every later run
\* updated that id, and its content is that of the most recent run.
SequentialUpsert ==
    LET complete == {r \in 1..MaxRuns : runs[r].pc = "Done"}
        quiet == \A r \in 1..MaxRuns : runs[r].pc \in {"LookingUp", "Done"}
    IN  (quiet /\ complete # {}) =>
            /\ Cardinality(Named) = 1
            /\ \A k \in Named :
                  /\ hub[k].origin = 1 /\ runs[1].matches = 0
                  /\ \A r \in complete : runs[r].spec_id = hub[k].id /\ (r > 1 => runs[r].matches = 1)
                  /\ \A r \in complete : (\A q \in complete : q <= r) =>
                        hub[k].by = r /\ hub[k].text = runs[r].text
            /\ \A j \in 1..Len(hub) : hub[j].origin \in {0, 1}

\* C18 witness: all runs are complete and the last one brought a text other than the first
AllRunsDone ==
    /\ \A r \in 1..MaxRuns : runs[r].pc = "Done"
    /\ runs[1].text # runs[MaxRuns].text
    /\ \E k \in Named : hub[k].text = runs[MaxRuns].text
====
